---- MODULE Spec2Model ----
(***************************************************************************)
(* Model of the directory cleaner: process_directory (the scan, the        *)
(* parallel dispatch over the collected entries, the shared statistics     *)
(* map behind its mutex, the summary) and organize_file (classification,   *)
(* create_dir_all, rename), over a small file system.                      *)
(*                                                                         *)
(* A file name is a sequence of one-character strings, a path is a         *)
(* sequence of names (its components, the root's own name first), so that  *)
(* Path::extension, to_lowercase, Path::join and the component-wise path   *)
(* equality are computed and not assumed.  A file's content is recorded as *)
(* the path it had in the initial tree.                                    *)
(***************************************************************************)
EXTENDS Naturals, Sequences, FiniteSets, TLC

VARIABLES
    root,      \* target_path, as a path
    dry_run,   \* the dry_run flag of the running invocation
    files,     \* the file system's regular files: path -> content
    dirs,      \* the file system's directories: a set of paths
    files0,    \* the files when the running invocation started
    dirs0,     \* the directories when the running invocation started
    run,       \* number of the running invocation of process_directory
    pc,        \* where process_directory is: "start", "dispatch", "done"
    entries,   \* the collected entries (logic.rs:61)
    todo,      \* the entries par_iter has not yet handed to a worker
    taken,     \* per entry: how many times it was handed to organize_file
    wpc,       \* per worker: "idle", "mkdir", "rename", "lock", "entry", "add", "unlock"
    wfile,     \* per worker: the file_path it is processing
    wcount,    \* per worker: the count its map entry held when it looked it up
    stats,     \* the HashMap behind the mutex: ExtensionTag -> count
    lock,      \* the mutex's holder: a worker, "main" or "free"
    moved,     \* the "Moved" lines printed: <<source, destination>> pairs
    planned,   \* the "[DRY RUN] Would move" lines printed
    failed,    \* the files an error line was printed for
    counted,   \* per file: how many increments were made for it
    summary,   \* the statistics printed after "Organization Complete"
    outcome,   \* what process_directory returned: "none", "Ok" or "Err"
    prev       \* what the previous invocation left: its mode, lines and summary

vars == <<root, dry_run, files, dirs, files0, dirs0, run, pc, entries, todo,
          taken, wpc, wfile, wcount, stats, lock, moved, planned, failed, counted,
          summary, outcome, prev>>

----------------------------------------------------------------------------
(* Bounds *)

MaxFiles == 2
NumWorkers == 2
MaxRuns == 2

Workers == 1..NumWorkers

----------------------------------------------------------------------------
(* Names and the trees the model starts from *)

N_r == <<"r">>
N_r_txt == <<"r", ".", "t", "x", "t">>
N_sub == <<"s", "u", "b">>
N_txt == <<"t", "x", "t">>
N_a_txt == <<"a", ".", "t", "x", "t">>
N_b_TXT == <<"b", ".", "T", "X", "T">>
N_README == <<"R", "E", "A", "D", "M", "E">>
N_dot_txt == <<".", "t", "x", "t">>
N_a_dot == <<"a", ".">>

FileNames == {N_a_txt, N_b_TXT, N_README, N_dot_txt, N_a_dot}

RootDir == <<N_r>>

Folders == {RootDir, <<N_r, N_sub>>, <<N_r, N_txt>>}

Placements == {Append(d, n) : d \in Folders, n \in FileNames}

\* A directory that sits where a destination file would go.
ExtraDirs == {<<N_r, N_txt, N_a_txt>>}

\* A regular file that sits where a destination folder would go.
ExtraFiles == {<<N_r, N_txt>>}

Parent(p) == SubSeq(p, 1, Len(p) - 1)

Prefixes(p) == {SubSeq(p, 1, k) : k \in 1..Len(p)}

Ancestors(p) == Prefixes(p) \ {p}

\* The trees under a root directory: at most MaxFiles of the placements,
\* with or without the extra directory and the extra file; every file's
\* ancestors are directories, no path is both a file and a directory.
DirTrees ==
    {t \in [fs : SUBSET Placements, ds : SUBSET ExtraDirs, xs : SUBSET ExtraFiles] :
        /\ Cardinality(t.fs) <= MaxFiles
        /\ LET alld == UNION {Ancestors(p) : p \in t.fs \cup t.xs}
                           \cup UNION {Prefixes(d) : d \in t.ds}
           IN  (t.fs \cup t.xs) \cap alld = {}}

TreeFiles(t) == t.fs \cup t.xs

TreeDirs(t) ==
    {RootDir} \cup UNION {Ancestors(p) : p \in TreeFiles(t)}
              \cup UNION {Prefixes(d) : d \in t.ds}

IdentityOn(S) == [p \in S |-> p]

----------------------------------------------------------------------------
(* Option values *)

None == [some |-> FALSE, val |-> <<>>]

Some(v) == [some |-> TRUE, val |-> v]

----------------------------------------------------------------------------
(* The path functions organize_file uses *)

\* char::to_lowercase on the letters of the model's names.
Lower(c) ==
    CASE c = "T" -> "t"
      [] c = "X" -> "x"
      [] c = "R" -> "r"
      [] c = "E" -> "e"
      [] c = "A" -> "a"
      [] c = "D" -> "d"
      [] c = "M" -> "m"
      [] OTHER -> c

\* str::to_lowercase
ToLowercase(s) == [i \in 1..Len(s) |-> Lower(s[i])]

\* Index of the last '.' of a name, 0 when it has none.
LastDot(name) ==
    LET dots == {i \in 1..Len(name) : name[i] = "."}
    IN  IF dots = {} THEN 0 ELSE CHOOSE i \in dots : \A j \in dots : j <= i

\* Path::file_name: the last component.
FileName(path) == path[Len(path)]

\* Path::extension: nothing when the file name has no '.', or when its only
\* '.' is its first character; otherwise the part after the last '.'.
Extension(path) ==
    LET name == FileName(path)
        i == LastDot(name)
    IN  IF i = 0 \/ i = 1
        THEN None
        ELSE Some(SubSeq(name, i + 1, Len(name)))

\* Path::join of one relative component; joining the empty string adds no
\* component (paths compare by components).
Join(path, comp) == IF comp = <<>> THEN path ELSE Append(path, comp)

\* The extension used as it is spelled.
ExtensionTag_CaseKept(path) == Extension(path).val

\* logic.rs:107  the ExtensionTag of a file that has an extension
ExtensionTag(path) == ToLowercase(Extension(path).val)

\* logic.rs:112
DestFolder(path) == Join(root, ExtensionTag(path))

\* logic.rs:116-117
DestPath(path) == Join(DestFolder(path), FileName(path))

\* The destination folder compared in place of the destination path.
AlreadyPlaced_Folder(path) == DestFolder(path) = path

\* logic.rs:120  the file is already in the right place
AlreadyPlaced(path) == DestPath(path) = path

----------------------------------------------------------------------------
(* The file system calls *)

IsFile(p) == p \in DOMAIN files

IsDir(p) == p \in dirs

IsPrefix(d, p) == Len(d) <= Len(p) /\ SubSeq(p, 1, Len(d)) = d

\* WalkDir::new(root) filtered to regular files (logic.rs:61-66): a missing
\* root yields an error entry that filter_map drops; a root that is a
\* regular file yields itself; a directory yields every file below it.
WalkFiles ==
    IF IsFile(root) THEN {root}
    ELSE IF ~IsDir(root) THEN {}
    ELSE {p \in DOMAIN files : IsPrefix(root, p)}

\* fs::create_dir: fails when the directory is already there.
CanCreateDirAll_CreateDir(d) == ~IsDir(d) /\ \A q \in Prefixes(d) : ~IsFile(q)

\* fs::create_dir_all succeeds unless a component of the path is a regular
\* file; it creates every missing component.
CanCreateDirAll(d) == \A q \in Prefixes(d) : ~IsFile(q)

\* A rename that refuses to replace a file at the destination.
CanRename_NoReplace(src, dst) ==
    /\ IsFile(src)
    /\ IsDir(Parent(dst))
    /\ ~IsDir(dst)
    /\ ~IsFile(dst)

\* fs::rename of a regular file succeeds when the source exists, the
\* destination's parent is a directory and the destination is no directory;
\* a regular file at the destination is replaced.
CanRename(src, dst) ==
    /\ IsFile(src)
    /\ IsDir(Parent(dst))
    /\ ~IsDir(dst)

AfterRename(src, dst) ==
    [p \in (DOMAIN files \ {src}) \cup {dst} |->
        IF p = dst THEN files[src] ELSE files[p]]

EmptyMap == [t \in {} |-> 0]

\* One more occurrence of k recorded in a history h.
Tally(h, k) ==
    [x \in DOMAIN h \cup {k} |->
        IF x # k THEN h[x] ELSE IF k \in DOMAIN h THEN h[k] + 1 ELSE 1]

\* The entry inserted as 1 and then incremented.
EntryOrInsert_One(map, ext) == IF ext \in DOMAIN map THEN map[ext] ELSE 1

\* logic.rs:87  map.entry(ext).or_insert(0): the count the entry holds
EntryOrInsert(map, ext) == IF ext \in DOMAIN map THEN map[ext] ELSE 0

\* logic.rs:87  the entry is written back, one more than it was read
Store(map, ext, n) ==
    [t \in DOMAIN map \cup {ext} |-> IF t = ext THEN n + 1 ELSE map[t]]

NoFile == <<>>

NoPrev == [ran |-> FALSE, dry |-> FALSE, moved |-> {}, planned |-> {},
           summary |-> EmptyMap]

----------------------------------------------------------------------------
(* Initial states *)

InitFs ==
    \/ \E t \in DirTrees :
          /\ root = RootDir
          /\ files = IdentityOn(TreeFiles(t))
          /\ dirs = TreeDirs(t)
    \/ \* target_path names a regular file
       /\ root \in {<<N_r>>, <<N_r_txt>>}
       /\ files = IdentityOn({root})
       /\ dirs = {}
    \/ \* target_path does not exist
       /\ root = RootDir
       /\ files = EmptyMap
       /\ dirs = {}

Init ==
    /\ InitFs
    /\ dry_run \in BOOLEAN
    /\ files0 = files
    /\ dirs0 = dirs
    /\ run = 1
    /\ pc = "start"
    /\ entries = {}
    /\ todo = {}
    /\ taken = EmptyMap
    /\ wpc = [w \in Workers |-> "idle"]
    /\ wfile = [w \in Workers |-> NoFile]
    /\ wcount = [w \in Workers |-> 0]
    /\ stats = EmptyMap
    /\ lock = {}
    /\ moved = {}
    /\ planned = {}
    /\ failed = {}
    /\ counted = EmptyMap
    /\ summary = EmptyMap
    /\ outcome = "none"
    /\ prev = NoPrev

----------------------------------------------------------------------------
(* process_directory and organize_file *)

\* A missing extension taken as the empty one instead of returning None.
Skips_PlacedOnly(f) == AlreadyPlaced(f)

\* The placement check left out.
Skips_ExtensionlessOnly(f) == ~Extension(f).some

\* logic.rs:106-122  organize_file returns None before doing anything
Skips(f) == ~Extension(f).some \/ AlreadyPlaced(f)

\* The flag ignored.
Simulates_Never == FALSE

\* logic.rs:125  the move is only printed
Simulates == dry_run

\* An entry handed out and left in the list.
Remaining_Kept(f) == todo

\* logic.rs:77  par_iter hands every entry to one closure call
Remaining(f) == todo \ {f}

\* logic.rs:57-74  collect the entries, create the empty statistics map
Scan ==
    /\ pc = "start"
    /\ entries' = WalkFiles
    /\ todo' = WalkFiles
    /\ stats' = EmptyMap
    /\ pc' = "dispatch"
    /\ UNCHANGED <<root, taken, dry_run, files, dirs, files0, dirs0, run, wpc, wfile,
                   wcount, lock, moved, planned, failed, counted, summary,
                   outcome, prev>>

\* logic.rs:77-83 and 103-126  a pool thread takes an entry and runs
\* organize_file up to its first file system call
Classify(w) ==
    /\ pc = "dispatch"
    /\ wpc[w] = "idle"
    /\ \E f \in todo :
          /\ todo' = Remaining(f)
          /\ taken' = Tally(taken, f)
          /\ IF Skips(f)
             THEN /\ UNCHANGED <<wpc, wfile, planned>>
             ELSE IF Simulates
             THEN /\ planned' = planned \cup {<<f, DestPath(f)>>}
                  /\ wpc' = [wpc EXCEPT ![w] = "lock"]
                  /\ wfile' = [wfile EXCEPT ![w] = f]
             ELSE /\ wpc' = [wpc EXCEPT ![w] = "mkdir"]
                  /\ wfile' = [wfile EXCEPT ![w] = f]
                  /\ UNCHANGED planned
    /\ UNCHANGED <<root, dry_run, files, dirs, files0, dirs0, run, pc, entries,
                   wcount, stats, lock, moved, failed, counted, summary,
                   outcome, prev>>

\* logic.rs:129-132  fs::create_dir_all(&dest_folder)
Mkdir(w) ==
    /\ wpc[w] = "mkdir"
    /\ LET d == DestFolder(wfile[w])
       IN  IF CanCreateDirAll(d)
           THEN /\ dirs' = dirs \cup Prefixes(d)
                /\ wpc' = [wpc EXCEPT ![w] = "rename"]
                /\ UNCHANGED <<wfile, failed>>
           ELSE /\ failed' = failed \cup {wfile[w]}
                /\ wpc' = [wpc EXCEPT ![w] = "idle"]
                /\ wfile' = [wfile EXCEPT ![w] = NoFile]
                /\ UNCHANGED dirs
    /\ UNCHANGED <<root, taken, dry_run, files, files0, dirs0, run, pc, entries, todo,
                   wcount, stats, lock, moved, planned, counted, summary,
                   outcome, prev>>

\* logic.rs:135-140  fs::rename(file_path, &dest_path)
Rename(w) ==
    /\ wpc[w] = "rename"
    /\ LET src == wfile[w]
           dst == DestPath(wfile[w])
       IN  IF CanRename(src, dst)
           THEN /\ files' = AfterRename(src, dst)
                /\ moved' = moved \cup {<<src, dst>>}
                /\ wpc' = [wpc EXCEPT ![w] = "lock"]
                /\ UNCHANGED <<wfile, failed>>
           ELSE /\ failed' = failed \cup {src}
                /\ wpc' = [wpc EXCEPT ![w] = "idle"]
                /\ wfile' = [wfile EXCEPT ![w] = NoFile]
                /\ UNCHANGED <<files, moved>>
    /\ UNCHANGED <<root, taken, dry_run, dirs, files0, dirs0, run, pc, entries, todo,
                   wcount, stats, lock, planned, counted, summary, outcome,
                   prev>>

\* The map reached without waiting for the mutex.
Lock_NoExclusion(w) ==
    /\ wpc[w] = "lock"
    /\ lock' = lock \cup {w}
    /\ wpc' = [wpc EXCEPT ![w] = "entry"]
    /\ UNCHANGED <<root, taken, dry_run, files, dirs, files0, dirs0, run, pc, entries,
                   todo, wfile, wcount, stats, moved, planned, failed, counted,
                   summary, outcome, prev>>

\* logic.rs:86  stats_clone.lock().unwrap(): blocks while the mutex is held
Lock(w) ==
    /\ wpc[w] = "lock"
    /\ lock = {}
    /\ lock' = {w}
    /\ wpc' = [wpc EXCEPT ![w] = "entry"]
    /\ UNCHANGED <<root, taken, dry_run, files, dirs, files0, dirs0, run, pc, entries,
                   todo, wfile, wcount, stats, moved, planned, failed, counted,
                   summary, outcome, prev>>

\* logic.rs:87  map.entry(ext).or_insert(0)
Entry(w) ==
    /\ wpc[w] = "entry"
    /\ wcount' = [wcount EXCEPT ![w] = EntryOrInsert(stats, ExtensionTag(wfile[w]))]
    /\ wpc' = [wpc EXCEPT ![w] = "add"]
    /\ UNCHANGED <<root, taken, dry_run, files, dirs, files0, dirs0, run, pc, entries,
                   todo, wfile, stats, lock, moved, planned, failed, counted,
                   summary, outcome, prev>>

\* logic.rs:87  += 1
Add(w) ==
    /\ wpc[w] = "add"
    /\ stats' = Store(stats, ExtensionTag(wfile[w]), wcount[w])
    /\ counted' = Tally(counted, wfile[w])
    /\ wpc' = [wpc EXCEPT ![w] = "unlock"]
    /\ UNCHANGED <<root, taken, dry_run, files, dirs, files0, dirs0, run, pc, entries,
                   todo, wfile, wcount, lock, moved, planned, failed, summary,
                   outcome, prev>>

\* The guard leaked: the mutex stays locked.
Unlock_KeepsLock(w) ==
    /\ wpc[w] = "unlock"
    /\ wpc' = [wpc EXCEPT ![w] = "idle"]
    /\ wfile' = [wfile EXCEPT ![w] = NoFile]
    /\ wcount' = [wcount EXCEPT ![w] = 0]
    /\ UNCHANGED <<root, taken, dry_run, files, dirs, files0, dirs0, run, pc,
                   entries, todo, stats, lock, moved, planned, failed, counted,
                   summary, outcome, prev>>

\* logic.rs:88  the guard goes out of scope
Unlock(w) ==
    /\ wpc[w] = "unlock"
    /\ lock' = lock \ {w}
    /\ wpc' = [wpc EXCEPT ![w] = "idle"]
    /\ wfile' = [wfile EXCEPT ![w] = NoFile]
    /\ wcount' = [wcount EXCEPT ![w] = 0]
    /\ UNCHANGED <<root, taken, dry_run, files, dirs, files0, dirs0, run, pc, entries,
                   todo, stats, moved, planned, failed, counted, summary,
                   outcome, prev>>

\* The closures left running: nothing is waited for.
Joined_NoWait == TRUE

\* for_each has returned: every entry was taken and every closure finished
Joined == todo = {} /\ \A w \in Workers : wpc[w] = "idle"

\* logic.rs:92-98  lock the map, print the summary, return Ok(())
Report ==
    /\ pc = "dispatch"
    /\ Joined
    /\ lock = {}
    /\ summary' = stats
    /\ outcome' = "Ok"
    /\ pc' = "done"
    /\ UNCHANGED <<root, taken, dry_run, files, dirs, files0, dirs0, run, entries, todo,
                   wpc, wfile, wcount, stats, lock, moved, planned, failed,
                   counted, prev>>

\* main.rs:8-16  the program is run again on the same target_path
NextRun ==
    /\ pc = "done"
    /\ run < MaxRuns
    /\ prev' = [ran |-> TRUE, dry |-> dry_run, moved |-> moved,
                planned |-> planned, summary |-> summary]
    /\ run' = run + 1
    /\ dry_run' \in BOOLEAN
    /\ files0' = files
    /\ dirs0' = dirs
    /\ pc' = "start"
    /\ entries' = {}
    /\ taken' = EmptyMap
    /\ moved' = {}
    /\ planned' = {}
    /\ failed' = {}
    /\ counted' = EmptyMap
    /\ summary' = EmptyMap
    /\ outcome' = "none"
    /\ UNCHANGED <<root, files, dirs, todo, wpc, wfile, wcount, stats, lock>>

Next ==
    \/ Scan
    \/ \E w \in Workers : Classify(w)
    \/ \E w \in Workers : Mkdir(w)
    \/ \E w \in Workers : Rename(w)
    \/ \E w \in Workers : Lock(w)
    \/ \E w \in Workers : Entry(w)
    \/ \E w \in Workers : Add(w)
    \/ \E w \in Workers : Unlock(w)
    \/ Report
    \/ NextRun

Spec == Init /\ [][Next]_vars

\* What one pool thread does.
WorkerStep(w) ==
    \/ Classify(w)
    \/ Mkdir(w)
    \/ Rename(w)
    \/ Lock(w)
    \/ Entry(w)
    \/ Add(w)
    \/ Unlock(w)

\* One call of process_directory: the scan, the pool threads, the summary.
RunStep ==
    \/ Scan
    \/ \E w \in Workers : WorkerStep(w)
    \/ Report

\* One call under fair scheduling: the calling thread and every pool thread
\* keep being scheduled, and the file system calls return.
FairSpec ==
    /\ Init
    /\ [][RunStep]_vars
    /\ WF_vars(Scan)
    /\ WF_vars(Report)
    /\ \A w \in Workers : WF_vars(WorkerStep(w))

----------------------------------------------------------------------------
(* What the claims speak of *)

RECURSIVE SumOver(_, _)
SumOver(map, keys) ==
    IF keys = {} THEN 0
    ELSE LET k == CHOOSE x \in keys : TRUE
         IN  map[k] + SumOver(map, keys \ {k})

\* Total of the counts of a statistics map.
Total(map) == SumOver(map, DOMAIN map)

Sources(lines) == {m[1] : m \in lines}

\* The lowercased extension of a file that has one.
TagOf(f) == ToLowercase(Extension(f).val)

\* Root/ExtensionTag/file-name
Destination(f) == Join(Join(root, TagOf(f)), FileName(f))

AtDestination(f) == Extension(f).some /\ f = Destination(f)

\* Eligible to move: has an extension and is not at its DestinationPath.
Eligible(f) == Extension(f).some /\ f # Destination(f)

\* In the tree the run started from, a regular file sits on the way to the
\* destination folder, or a directory sits at the destination path: the
\* file's create_dir_all or rename cannot succeed.
Blocked(f) ==
    \/ \E q \in Prefixes(Join(root, TagOf(f))) : q \in DOMAIN files0
    \/ Destination(f) \in dirs0

\* Root names a directory, the case the claims about trees speak of.
RootIsDirectory == root \in dirs0

SecondRealRun == prev.ran /\ ~prev.dry /\ ~dry_run

RealRunAfterDryRun == prev.ran /\ prev.dry /\ ~dry_run

----------------------------------------------------------------------------
(* Claims *)

\* C1 (idempotence): in a non-dry-run execution that follows a completed
\* non-dry-run execution on the same Root, no rename is performed, the tree
\* stays as it was, and the StatsMap it ends with is empty.
C1_Idempotence ==
    SecondRealRun =>
        /\ moved = {}
        /\ files = files0
        /\ counted = EmptyMap
        /\ pc = "done" => summary = EmptyMap

\* C1 witness: the second run has ended after a first run that moved files.
C1_Witness ==
    /\ SecondRealRun
    /\ pc = "done"
    /\ prev.moved # {}
    /\ \E f \in entries : AtDestination(f)

\* C2 as stated (concurrency safety): when process_directory finishes on a
\* directory, the total of the counts in StatsMap is the number of discovered
\* files that were eligible to move.
C2_TotalIsEligible ==
    (pc = "done" /\ RootIsDirectory) =>
        Total(summary) = Cardinality({f \in entries : Eligible(f)})

\* C2 as amended: when process_directory finishes, the total of the counts
\* is the number of eligible files whose directory creation and rename
\* succeeded (in dry-run mode, the number of eligible files), each such file
\* was counted exactly once and no other file was counted.
C2_TotalIsMoved ==
    pc = "done" =>
        LET done == {f \in entries : Eligible(f) /\ (dry_run \/ ~Blocked(f))}
        IN  /\ Total(summary) = Cardinality(done)
            /\ DOMAIN counted = done
            /\ \A f \in done : counted[f] = 1
            /\ ~dry_run => Sources(moved) = done

\* C2 witness: the run has ended with two files counted, both under one tag.
C2_Witness ==
    /\ pc = "done"
    /\ \E t \in DOMAIN summary : summary[t] = 2
    /\ Cardinality(DOMAIN counted) = 2

\* C3 (dry-run equivalence): the pairs a dry run of a directory reported are
\* the renames a following non-dry-run execution on the untouched tree
\* performed.
C3_DryRunEquivalence ==
    (RealRunAfterDryRun /\ pc = "done" /\ RootIsDirectory) =>
        moved = prev.planned

\* C4 (dry-run summary): the StatsMap a dry run of a directory ended with is
\* the StatsMap a following non-dry-run execution on the same tree ended with.
C4_SameSummary ==
    (RealRunAfterDryRun /\ pc = "done" /\ RootIsDirectory) =>
        summary = prev.summary

\* C5 (dry-run frame): while a dry run executes, the files (paths and
\* contents) and the directories are those of the tree it started from.
C5_DryRunFrame ==
    dry_run => files = files0 /\ dirs = dirs0

\* C5 witness: a dry run has ended after reporting a move whose destination
\* folder does not exist.
C5_Witness ==
    /\ dry_run
    /\ pc = "done"
    /\ \E m \in planned : Parent(m[2]) \notin dirs

\* C6 as stated (no-op on correct placement): a file that is at its
\* DestinationPath Root/ExtensionTag/file-name when the run scans is never
\* the source of a rename, is never counted, and the same file is at that
\* path when the run ends.
C6_PlacedUntouched ==
    \A f \in entries :
        (AtDestination(f) /\ TagOf(f) # <<>>) =>
            /\ f \notin Sources(moved)
            /\ f \notin DOMAIN counted
            /\ pc = "done" => (f \in DOMAIN files /\ files[f] = files0[f])

\* C6 as amended: a file that is at its DestinationPath when the run scans is
\* never the source of a rename (performed, pending or planned), is never
\* counted, and a file is at that path throughout; it is the same file unless
\* the rename of another file to that same path has replaced it.
C6_PlacedNeverMoved ==
    \A f \in entries :
        AtDestination(f) =>
            /\ f \notin Sources(moved)
            /\ f \notin Sources(planned)
            /\ f \notin failed
            /\ \A w \in Workers : wfile[w] # f
            /\ f \notin DOMAIN counted
            /\ f \in DOMAIN files
            /\ \/ files[f] = files0[f]
               \/ \E m \in moved : m[2] = f /\ files[f] = files0[m[1]]

\* C6 witness: the run has ended, a file that was in place is still the same
\* file, and another file was moved into its folder.
C6_Witness ==
    /\ pc = "done"
    /\ \E f \in entries :
          /\ AtDestination(f)
          /\ files[f] = files0[f]
          /\ \E m \in moved : Parent(m[2]) = Parent(f)

\* C7 (partial-failure isolation): when a non-dry-run execution ends, every
\* eligible file whose directory creation and rename can succeed was renamed
\* to its DestinationPath and counted once, every eligible file whose
\* directory creation or rename fails is unchanged at its source path, was
\* reported and not counted, the summary counts the moved files only, and
\* the run returned success.
C7_PartialFailureIsolation ==
    (pc = "done" /\ ~dry_run) =>
        /\ outcome = "Ok"
        /\ \A f \in entries :
              Eligible(f) =>
                  IF Blocked(f)
                  THEN /\ f \in DOMAIN files
                       /\ files[f] = files0[f]
                       /\ f \in failed
                       /\ f \notin DOMAIN counted
                       /\ f \notin Sources(moved)
                  ELSE /\ <<f, Destination(f)>> \in moved
                       /\ f \notin DOMAIN files
                       /\ Destination(f) \in DOMAIN files
                       /\ f \notin failed
                       /\ f \in DOMAIN counted
                       /\ counted[f] = 1
        /\ DOMAIN summary = {TagOf(f) : f \in {g \in entries : Eligible(g) /\ ~Blocked(g)}}
        /\ \A t \in DOMAIN summary :
              summary[t] = Cardinality({f \in entries :
                               Eligible(f) /\ ~Blocked(f) /\ TagOf(f) = t})

\* C7 witness: a non-dry-run execution of a directory has ended; the
\* destination folder of one file could not be created, a regular file
\* being in its place, and another file was moved.
C7_Witness ==
    /\ pc = "done"
    /\ ~dry_run
    /\ RootIsDirectory
    /\ \E f \in failed : Join(root, TagOf(f)) \in DOMAIN files
    /\ moved # {}

\* C8 (setup error is fatal): when Root does not exist or is not a
\* directory, process_directory returns the failure outcome.
C8_SetupErrorFatal ==
    (pc = "done" /\ ~RootIsDirectory) => outcome = "Err"

\* Two eligible files whose extensions differ, and only in letter case.
SameTag(f, g) ==
    /\ Eligible(f)
    /\ Eligible(g)
    /\ Extension(f).val # Extension(g).val
    /\ TagOf(f) = TagOf(g)

\* The file was renamed into Root/tag under its own name.
MovedUnder(f, t) == <<f, Append(Append(root, t), FileName(f))>> \in moved

\* C9 as stated (case-insensitive bucketing): when a non-dry-run execution
\* of a directory ends, any two eligible files whose extensions differ only
\* in letter case were moved into the one subfolder Root/tag under their own
\* names and are both counted under the one key tag.
C9_SameBucket ==
    (pc = "done" /\ ~dry_run /\ RootIsDirectory) =>
        \A f, g \in entries :
            SameTag(f, g) =>
                /\ MovedUnder(f, TagOf(f))
                /\ MovedUnder(g, TagOf(f))
                /\ TagOf(f) \in DOMAIN summary
                /\ summary[TagOf(f)] >= 2

\* C9 as amended: when a non-dry-run execution ends, any two eligible files
\* whose extensions differ only in letter case and whose directory creation
\* and rename succeed were moved into the one subfolder Root/tag under their
\* own names and are both counted under the one key tag, and every key of
\* the StatsMap is lowercase.
C9_SameBucketWhenMoved ==
    (pc = "done" /\ ~dry_run) =>
        /\ \A f, g \in entries :
              (SameTag(f, g) /\ ~Blocked(f) /\ ~Blocked(g)) =>
                  /\ MovedUnder(f, TagOf(f))
                  /\ MovedUnder(g, TagOf(f))
                  /\ counted[f] = 1
                  /\ counted[g] = 1
                  /\ TagOf(f) \in DOMAIN summary
                  /\ summary[TagOf(f)] >= 2
        /\ \A k \in DOMAIN summary : k = ToLowercase(k)

\* C9 witness: two files whose extensions are spelled in different case
\* have both been moved.
C9_Witness ==
    /\ pc = "done"
    /\ \E f, g \in Sources(moved) : SameTag(f, g)

\* C10 (extensionless skip): in either mode a file without an extension is
\* never the source of a rename (performed, pending or planned), is the same
\* file at its path in every state of the run, is never counted, and every
\* key of the StatsMap is the tag of a file that has an extension.
C10_ExtensionlessSkip ==
    /\ \A f \in entries :
          ~Extension(f).some =>
              /\ f \notin Sources(moved)
              /\ f \notin Sources(planned)
              /\ \A w \in Workers : wfile[w] # f
              /\ f \in DOMAIN files
              /\ files[f] = files0[f]
              /\ f \notin DOMAIN counted
    /\ pc # "start" =>
          \A k \in DOMAIN stats :
              \E g \in entries : Extension(g).some /\ TagOf(g) = k

\* C10 witness: a run has ended in which a file without an extension lay in
\* a subfolder beside a file that was moved or planned to move.
C10_Witness ==
    /\ pc = "done"
    /\ \E f \in entries :
          /\ ~Extension(f).some
          /\ Len(f) > Len(root) + 1
          /\ \E m \in moved \cup planned : Parent(m[1]) = Parent(f)

\* C11 (fan-in barrier): once the summary has been emitted, every entry has
\* been handed out, every worker has finished (no classification, file
\* system call or increment is pending), the mutex is free, and the summary
\* is the StatsMap with every increment made for the run in it.
C11_FanInBarrier ==
    pc = "done" =>
        /\ todo = {}
        /\ \A w \in Workers : wpc[w] = "idle" /\ wfile[w] = NoFile
        /\ lock = {}
        /\ summary = stats
        /\ Total(summary) = Total(counted)

\* C11 witness: the summary was emitted after each of two or more entries
\* had been counted.
C11_Witness ==
    /\ pc = "done"
    /\ Cardinality(entries) >= 2
    /\ DOMAIN counted = entries

\* C12 (lock discipline): at most one worker holds the mutex; a holder is
\* between its lock() and the end of the guard's scope, so no worker that is
\* at create_dir_all or rename holds it; a holder makes exactly one
\* increment while it holds it; and the StatsMap of a run changes only by a
\* holder's single increment of one key.
C12_HolderInv ==
    /\ Cardinality(lock) <= 1
    /\ \A w \in Workers :
          /\ w \in lock <=> wpc[w] \in {"entry", "add", "unlock"}
          /\ wpc[w] \in {"entry", "add"} => wfile[w] \notin DOMAIN counted
          /\ wpc[w] = "unlock" =>
                (wfile[w] \in DOMAIN counted /\ counted[wfile[w]] = 1)

C12_StepInv ==
    /\ (stats' # stats /\ pc # "start") =>
          \E w \in lock :
              /\ wpc[w] = "add"
              /\ wpc'[w] = "unlock"
              /\ Total(stats') = Total(stats) + 1
              /\ files' = files
              /\ dirs' = dirs
    /\ (files' # files \/ dirs' # dirs) =>
          /\ lock' = lock
          /\ \E w \in Workers \ lock : wpc[w] \in {"mkdir", "rename"} /\ wpc'[w] # wpc[w]

C12_LockDiscipline == [](C12_HolderInv) /\ [][C12_StepInv]_vars

\* C12 witness: one worker holds the mutex after its increment while another
\* is at its rename.
C12_Witness ==
    \E v, w \in Workers :
        /\ v \in lock
        /\ wpc[v] = "unlock"
        /\ wpc[w] = "rename"

\* C13 (traversal precedes dispatch): no worker has started while the list
\* is being collected; once collected the list does not change during the
\* run and holds only regular files of the tree the run started from, never
\* a directory; every entry is handed to organize_file once and no more;
\* and a file or directory the run has created is neither in the list nor
\* processed.
C13_ListInv ==
    /\ pc = "start" =>
          /\ todo = {}
          /\ taken = EmptyMap
          /\ \A w \in Workers : wpc[w] = "idle"
    /\ pc # "start" =>
          /\ entries \subseteq DOMAIN files0
          /\ entries \cap (dirs0 \cup dirs) = {}
    /\ todo \subseteq entries
    /\ DOMAIN taken = entries \ todo
    /\ \A f \in DOMAIN taken : taken[f] = 1
    /\ pc = "done" => DOMAIN taken = entries
    /\ \A w \in Workers : wfile[w] \in entries \cup {NoFile}
    /\ \A p \in (DOMAIN files \ DOMAIN files0) \cup (dirs \ dirs0) :
          /\ p \notin entries
          /\ \A w \in Workers : wfile[w] # p

C13_ListStep ==
    pc = "dispatch" =>
        /\ entries' = entries
        /\ todo' \subseteq todo

C13_TraversalPrecedesDispatch == [](C13_ListInv) /\ [][C13_ListStep]_vars

\* C13 witness: the run has ended after a move created a folder and a file
\* in it, and every entry was handed out.
C13_Witness ==
    /\ pc = "done"
    /\ DOMAIN taken = entries
    /\ \E m \in moved :
          /\ m[2] \notin DOMAIN files0
          /\ Parent(m[2]) \in dirs \ dirs0

\* The files with tag t whose rename has succeeded in this run.
MovedWithTag(t) == {m \in moved : TagOf(m[1]) = t}

\* C14 (increment follows success): in every state of a run each file has
\* caused at most one increment and only a file with an extension has caused
\* one; in a non-dry-run execution a file that was counted has been renamed
\* before, every count of the StatsMap is at most the number of files of
\* that tag renamed so far, and when the run ends the counts are these
\* numbers.
C14_IncrementFollowsSuccess ==
    pc # "start" =>
        /\ \A f \in DOMAIN counted :
              /\ counted[f] = 1
              /\ Extension(f).some
              /\ ~dry_run => f \in Sources(moved)
        /\ ~dry_run =>
              /\ \A t \in DOMAIN stats :
                    stats[t] <= Cardinality(MovedWithTag(t))
              /\ pc = "done" =>
                    /\ DOMAIN summary = {TagOf(m[1]) : m \in moved}
                    /\ \A t \in DOMAIN summary :
                          summary[t] = Cardinality(MovedWithTag(t))

\* C14 witness: two files of one tag have been renamed and only one of them
\* has been counted yet.
C14_Witness ==
    /\ pc = "dispatch"
    /\ ~dry_run
    /\ \E t \in DOMAIN stats :
          /\ stats[t] = 1
          /\ Cardinality(MovedWithTag(t)) = 2

\* A file name that is a '.' followed by text without another '.'.
EmptyBaseName(f) ==
    LET n == FileName(f)
    IN  Len(n) > 1 /\ n[1] = "." /\ LastDot(n) = 1

\* The text after the dot of such a name, lowercased.
TagAfterDot(f) == ToLowercase(SubSeq(FileName(f), 2, Len(FileName(f))))

\* C15 (empty base name): when a non-dry-run execution of a directory ends,
\* a file whose name is a '.' followed by an extension, that is not at
\* Root/tag/name and whose way there is free, was moved to Root/tag/name,
\* tag being the text after the dot, and counted under tag.
C15_EmptyBaseName ==
    (pc = "done" /\ ~dry_run /\ RootIsDirectory) =>
        \A f \in entries :
            LET folder == Append(root, TagAfterDot(f))
                dest == Append(folder, FileName(f))
            IN  (/\ EmptyBaseName(f)
                 /\ f # dest
                 /\ folder \notin DOMAIN files0
                 /\ dest \notin dirs0)
                => /\ <<f, dest>> \in moved
                   /\ f \in DOMAIN counted
                   /\ TagAfterDot(f) \in DOMAIN summary

\* C16 (destination shape): in a run on a directory, the destination of
\* every rename performed and of every move reported for a file with an
\* extension is Root, then the folder named by the lowercased extension,
\* then the file's own name: a path two components below Root.
C16_DestinationShape ==
    RootIsDirectory =>
        \A m \in moved \cup planned :
            Extension(m[1]).some =>
                /\ Len(m[2]) = Len(root) + 2
                /\ SubSeq(m[2], 1, Len(root)) = root
                /\ m[2][Len(root) + 1] = TagOf(m[1])
                /\ m[2][Len(root) + 2] = FileName(m[1])

\* An eligible file f and another file g with an extension that have the
\* same DestinationPath (g eligible too, or already in place there).
Collide(f, g) ==
    /\ f # g
    /\ Eligible(f)
    /\ Extension(g).some
    /\ Destination(g) = Destination(f)

\* C17 as stated (last-write-wins collision): when a non-dry-run execution
\* of a directory ends, every eligible file that shares its DestinationPath
\* with another file was renamed without an error and counted once, and a
\* file is at that DestinationPath.
C17_CollisionsSucceed ==
    (pc = "done" /\ ~dry_run /\ RootIsDirectory) =>
        \A f, g \in entries :
            Collide(f, g) =>
                /\ <<f, Destination(f)>> \in moved
                /\ f \notin failed
                /\ f \in DOMAIN counted
                /\ Destination(f) \in DOMAIN files

\* C17 as amended: when a non-dry-run execution ends, every eligible file
\* that shares its DestinationPath with another file, and whose directory
\* creation and rename are not blocked (no regular file in the folder's
\* place, no directory at the DestinationPath), was renamed without an error
\* and counted once; the one file at the DestinationPath is one of the
\* renamed files; and with two or more renamed onto one path the StatsMap
\* total exceeds the number of destination paths written.
C17_LastWriteWins ==
    (pc = "done" /\ ~dry_run) =>
        \A f, g \in entries :
            (Collide(f, g) /\ ~Blocked(f)) =>
                /\ <<f, Destination(f)>> \in moved
                /\ f \notin failed
                /\ f \in DOMAIN counted
                /\ counted[f] = 1
                /\ f \notin DOMAIN files
                /\ Destination(f) \in DOMAIN files
                /\ files[Destination(f)] \in
                      {files0[x] : x \in {y \in entries :
                           Eligible(y) /\ Destination(y) = Destination(f)}}
                /\ Eligible(g) =>
                      Total(summary) > Cardinality({m[2] : m \in moved})

\* C17 witness: two files have been renamed onto the same path and both
\* were counted.
C17_Witness ==
    /\ pc = "done"
    /\ \E m, n \in moved : m # n /\ m[2] = n[2]
    /\ Total(summary) = 2

\* What the initial tree alone determines: the list the scan collects, the
\* files that will be renamed, the folders create_dir_all will make.
ScanOfInitial ==
    IF root \in DOMAIN files0 THEN {root}
    ELSE IF root \notin dirs0 THEN {}
    ELSE {p \in DOMAIN files0 : SubSeq(p, 1, Len(root)) = root}

WillMove == {f \in ScanOfInitial : Eligible(f) /\ ~Blocked(f)}

WillFail == {f \in ScanOfInitial : Eligible(f) /\ Blocked(f)}

WillMake ==
    UNION {Prefixes(Join(root, TagOf(f))) :
              f \in {g \in ScanOfInitial :
                        /\ Eligible(g)
                        /\ \A q \in Prefixes(Join(root, TagOf(g))) :
                              q \notin DOMAIN files0}}

CountsOf(S) == [t \in {TagOf(f) : f \in S} |->
                   Cardinality({f \in S : TagOf(f) = t})]

\* The files a worker has taken and not yet renamed, and those not yet taken.
PendingMove ==
    {f \in todo : Eligible(f)}
        \cup {wfile[w] : w \in {v \in Workers : wpc[v] \in {"mkdir", "rename"}}}

\* C18 (order independence): whatever the interleaving, a run ends with the
\* StatsMap, the occupied file paths, the directories and the failed files
\* that the initial tree and the mode determine; and in no state is the
\* destination of a pending move the path of a file that is itself pending
\* a move.
C18_OrderIndependence ==
    /\ \A f, g \in PendingMove : Destination(f) # g
    /\ pc = "done" =>
          IF dry_run
          THEN /\ summary = CountsOf({f \in ScanOfInitial : Eligible(f)})
               /\ DOMAIN files = DOMAIN files0
               /\ dirs = dirs0
               /\ failed = {}
          ELSE /\ summary = CountsOf(WillMove)
               /\ DOMAIN files =
                      (DOMAIN files0 \ WillMove) \cup {Destination(f) : f \in WillMove}
               /\ dirs = dirs0 \cup WillMake
               /\ failed = WillFail

\* C18 witness: two files were renamed onto one path in a run that has
\* ended, and the one that came from deeper in the tree is the one there.
C18_Witness ==
    /\ pc = "done"
    /\ \E m, n \in moved :
          /\ m # n
          /\ m[2] = n[2]
          /\ files[m[2]] = files0[m[1]]
          /\ Len(m[1]) > Len(n[1])

\* C19 (completion): under fair scheduling a run that has started ends with
\* the summary emitted and success returned, every worker that has taken a
\* file finishes with it, and a worker that waits for the mutex gets it.
C19_Completion ==
    /\ (pc = "start") ~> (pc = "done" /\ outcome = "Ok" /\ todo = {})
    /\ \A w \in Workers : (wpc[w] # "idle") ~> (wpc[w] = "idle")
    /\ \A w \in Workers : (wpc[w] = "lock") ~> (w \in lock)

\* C19 witness: a worker waits for the mutex while another holds it.
C19_Witness ==
    \E v, w \in Workers :
        /\ v \in lock
        /\ wpc[w] = "lock"

====
